---- MODULE Spec2Model ----
(***************************************************************************)
(* Model of BasemapDownloader (src/basemap_at_downloader.py) and of the    *)
(* download_image route that calls it (src/app.py).                        *)
(*                                                                         *)
(* One downloader instance serves a sequence of download_tiles calls.      *)
(* A call computes the tile range, builds the request list, downloads the  *)
(* tiles on an asyncio event loop through an aiohttp connector with a      *)
(* connection limit, pastes the tiles into one image, writes the raster    *)
(* and clears the working directory.                                       *)
(***************************************************************************)
EXTENDS Integers, Sequences, FiniteSets, TLC

(***************************************************************************)
(* Bounds of the model.                                                    *)
(***************************************************************************)
\* TCPConnector(limit=20) in the source; the model runs the same connector
\* at a limit small enough for the requests to outnumber the connections.
ConnLimit == 2
\* Largest number of tiles a modelled call asks for.
MaxTiles == 3
\* Largest zoom level a modelled call asks for.
MaxZoom == 1

\* Largest zoom level at which the mapper is run on its own.
MapperMaxZoom == 3
\* Largest number of BasemapDownloader(...) calls in one process.
MaxConstructions == 3

(***************************************************************************)
(* Inputs.                                                                 *)
(***************************************************************************)
Lats == {-90, -60, 60, 90}
Lons == {-180, 0, 180}
Zooms == 0..MaxZoom
\* The route calls download_tiles with the default output_file of line 144.
OutputFiles == {"uploads/basemap_rgb.tif"}
\* The layer parameter of line 144: the default, and basemap.at's high-DPI
\* layer.
Layers == {"bmaporthofoto30cm", "bmaphidpi"}

tile_size == 256
ProgressEvery == 50

\* Python's None, as a path and as a return value.
NoPath == <<>>
NoneValue == "None"

(***************************************************************************)
(* Pure helpers.                                                           *)
(***************************************************************************)
RECURSIVE Pow2(_)
Pow2(z) == IF z <= 0 THEN 1 ELSE 2 * Pow2(z - 1)

\* Python's int() on a quotient a/b with b > 0: truncation toward zero.
TruncDiv(a, b) == IF a >= 0 THEN a \div b ELSE -((-a) \div b)

\* (1 - ln(tan(lat) + 1/cos(lat)) / pi) / 2 in millionths, as the double
\* arithmetic of line 69 evaluates it for the latitudes of Lats.
MercatorMicro(lat) ==
    CASE lat = -89 -> 1254609
      [] lat = -85 -> 998362
      [] lat = -60 -> 709600
      [] lat = 0   -> 500000
      [] lat = 60  -> 290400
      [] lat = 85  -> 1638
      [] lat = 89  -> -254609
      [] lat = 90  -> -5551867
      [] OTHER     -> 0

\* math.log raises "math domain error": tan(-pi/2) + 1/cos(-pi/2) is 0.0.
MercatorRaises(lat) == lat = -90

\* _calculate_tile_coordinates
calculate_tile_coordinates(lat_deg, lon_deg, z) ==
    LET n == Pow2(z)
        x_tile == TruncDiv((lon_deg + 180) * n, 360)
        y_tile == TruncDiv(MercatorMicro(lat_deg) * n, 1000000)
    IN  <<x_tile, y_tile>>

\* calculate_tile_range with the two corners taken the other way round.
calculate_tile_range_swapped(lat_min, lon_min, lat_max, lon_max, z) ==
    LET nw == calculate_tile_coordinates(lat_min, lon_max, z)
        se == calculate_tile_coordinates(lat_max, lon_min, z)
    IN  <<nw[1], se[1], nw[2], se[2]>>

\* _calculate_tile_range: <<min_tile_x, max_tile_x, min_tile_y, max_tile_y>>
calculate_tile_range(lat_min, lon_min, lat_max, lon_max, z) ==
    LET nw == calculate_tile_coordinates(lat_max, lon_min, z)
        se == calculate_tile_coordinates(lat_min, lon_max, z)
    IN  <<nw[1], se[1], nw[2], se[2]>>

\* range(a, b + 1) as a sequence
RECURSIVE PyRange(_, _)
PyRange(a, b) == IF a > b THEN <<>> ELSE <<a>> \o PyRange(a + 1, b)

\* The host and path prefix, and the extension, of the URL of line 167.
UrlBase == "https://mapsneu.wien.gv.at/basemap"
UrlExt == "jpeg"

\* TileUrl with the column index before the row index.
TileUrlColumnFirst(layer, style, tms, z, x, y) ==
    <<UrlBase, layer, style, tms, z, x, y, UrlExt>>

\* The URL of line 167, as its segments in order:
\* base/layer/style/tile_matrix_set/zoom/y/x.ext
TileUrl(layer, style, tms, z, x, y) ==
    <<UrlBase, layer, style, tms, z, y, x, UrlExt>>

\* The list comprehension of lines 166-170: rows outermost, columns inside.
RECURSIVE RowUrls(_, _, _, _)
RowUrls(xs, y, z, layer) ==
    IF xs = <<>> THEN <<>>
    ELSE <<[url |-> TileUrl(layer, "normal", "google3857", z, Head(xs), y),
            x |-> Head(xs), y |-> y]>> \o RowUrls(Tail(xs), y, z, layer)

RECURSIVE BuildUrls(_, _, _, _)
BuildUrls(ys, xs, z, layer) ==
    IF ys = <<>> THEN <<>>
    ELSE RowUrls(xs, Head(ys), z, layer) \o BuildUrls(Tail(ys), xs, z, layer)

\* tile_path of lines 107-108 and its parse at line 199.
TilePath(x, y) == <<"tile", x, y>>
ParseTilePath(p) == <<p[2], p[3]>>

SeqRange(s) == {s[j] : j \in 1..Len(s)}

\* Side, in pixels, of the image the server sends for a tile of the layer:
\* 512 for the high-DPI layer, 256 otherwise.  Line 106 opens it and line
\* 109 saves it whatever its size.
ServerTileSize(layer) == IF layer = "bmaphidpi" THEN 2 * 256 ELSE 256

\* The canvas is kept per cell of tile_size x tile_size pixels: every paste
\* box and every image side is a multiple of tile_size.  A cell holds the
\* background or block (bx, by) of a tile image that is "of" blocks wide.
Background == [tile |-> NoPath, bx |-> 0, by |-> 0, of |-> 0]

\* Image.new('RGB', (w, h)), line 197: all pixels zero.
NewImage(w, h) ==
    [w |-> w, h |-> h,
     cells |-> [c \in (0..(w \div tile_size) - 1) \X (0..(h \div tile_size) - 1)
                   |-> Background]]

\* Lines 199-201: the coordinate is parsed from the file name and the whole
\* image of side "side" is pasted with its top-left corner at the tile's
\* offset; PIL clips what falls outside the canvas.
Paste(img, tile_path, side, min_tile_x, min_tile_y) ==
    LET xy == ParseTilePath(tile_path)
        ox == (xy[1] - min_tile_x) * tile_size
        oy == (xy[2] - min_tile_y) * tile_size
        Covered(c) == /\ c[1] * tile_size >= ox /\ c[1] * tile_size < ox + side
                      /\ c[2] * tile_size >= oy /\ c[2] * tile_size < oy + side
    IN  [img EXCEPT !.cells =
            [c \in DOMAIN @ |->
                IF Covered(c)
                THEN [tile |-> tile_path,
                      bx |-> c[1] - (ox \div tile_size),
                      by |-> c[2] - (oy \div tile_size),
                      of |-> side \div tile_size]
                ELSE @[c]]]

(***************************************************************************)
(* State.                                                                  *)
(***************************************************************************)
VARIABLES
    pc,              \* where the current download_tiles call stands
    failedIn,        \* the stage whose statement raised, when pc = "Failed"
    stages,          \* the stages the current call has completed, in order
    args,            \* [zoom, layer, output_file, valid_bbox] of the call
    range,           \* <<min_tile_x, max_tile_x, min_tile_y, max_tile_y>>
    total_tiles,     \* the count logged at line 164
    tile_urls,       \* the request list of lines 166-170
    tasks,           \* one fetch task per request: [st, outcome, res]
    doneq,           \* finished tasks as_completed has not yet handed out
    i,               \* loop counter of line 136
    tile_paths,      \* the list fetchAll builds and returns
    errlog,          \* URLs for which logger.error was called
    progress,        \* values of i logged at line 141
    full_image,      \* the canvas: [w, h, cells]
    k,               \* index of the next tile_paths entry to paste
    raster,          \* the raster files the current request has written
    retval,          \* what download_tiles returned
    converter_input, \* what the route handed to tifpngconverter.convert
    dirExists,       \* output_dir exists
    files,           \* tile files in output_dir
    instance,        \* BasemapDownloader._instance and its attributes
    constructions    \* the BasemapDownloader(...) calls made so far

vars == <<pc, failedIn, stages, args, range, total_tiles, tile_urls, tasks,
          doneq, i, tile_paths, errlog, progress, full_image, k, raster,
          retval, converter_input, dirExists, files, instance, constructions>>

callVars == <<args, range, total_tiles, tile_urls>>
fetchVars == <<tasks, doneq, i, tile_paths, errlog, progress>>
imageVars == <<full_image, k>>
outVars == <<raster, retval, converter_input>>
dirVars == <<dirExists, files>>
ctorVars == <<instance, constructions>>

NoRange == <<>>
NoArgs == [zoom |-> 0, layer |-> "", output_file |-> "", valid_bbox |-> TRUE]
NoImage == [w |-> 0, h |-> 0, cells |-> <<>>]
NotReturned == "unset"
\* _instance = None (line 15).
NoInstance == [initialized |-> FALSE, created |-> FALSE]
\* The defaults of __init__ (line 23).
DefaultOutputDir == "downloaded_tiles"
DefaultCrs == "EPSG:3857"
\* BasemapDownloader() as app.py constructs it (line 69), and the instance
\* it leaves.
AppConstruction ==
    [with_args |-> FALSE, tile_size |-> tile_size, output_dir |-> DefaultOutputDir,
     crs |-> DefaultCrs, raised |-> "", cleared |-> TRUE]
AppInstance ==
    [initialized |-> TRUE, created |-> TRUE, tile_size |-> tile_size,
     output_dir |-> DefaultOutputDir, crs |-> DefaultCrs]

\* State after BasemapDownloader() has been constructed (lines 32-40):
\* _prepare_output_directory has left an existing, empty output_dir.
Init ==
    /\ pc = "Idle"
    /\ failedIn = ""
    /\ stages = <<>>
    /\ args = NoArgs
    /\ range = NoRange
    /\ total_tiles = 0
    /\ tile_urls = <<>>
    /\ tasks = <<>>
    /\ doneq = <<>>
    /\ i = 0
    /\ tile_paths = <<>>
    /\ errlog = {}
    /\ progress = <<>>
    /\ full_image = NoImage
    /\ k = 0
    /\ raster = {}
    /\ retval = NotReturned
    /\ converter_input = <<>>
    /\ dirExists = TRUE
    /\ files = {}
    /\ instance = AppInstance
    /\ constructions = <<AppConstruction>>

(***************************************************************************)
(* Derived quantities.                                                     *)
(***************************************************************************)
TaskIds == 1..Len(tasks)
InFlight == {t \in TaskIds : tasks[t].st = "inflight"}
Waiting == {t \in TaskIds : tasks[t].st = "waiting"}
Finished == {t \in TaskIds : tasks[t].st = "done"}
StartedUnfinished == InFlight \cup Waiting

\* An exception leaves download_tiles: nothing after the raising statement
\* runs, the route's handler answers 500.
Raise(stage) ==
    /\ pc' = "Failed"
    /\ failedIn' = stage

(***************************************************************************)
(* download_tiles, lines 162-170.                                          *)
(***************************************************************************)
\* Line 162.  The number of cells is capped by MaxTiles.
CalculateTileRange(lat_min, lon_min, lat_max, lon_max, z, layer, out) ==
    /\ pc = "Idle"
    /\ args' = [zoom |-> z, layer |-> layer, output_file |-> out,
                valid_bbox |-> lat_min < lat_max /\ lon_min < lon_max]
    /\ IF MercatorRaises(lat_max) \/ MercatorRaises(lat_min)
       THEN /\ Raise("RangeComputed")
            /\ UNCHANGED <<stages, range>>
       ELSE LET r == calculate_tile_range(lat_min, lon_min, lat_max, lon_max, z)
            IN  /\ Len(PyRange(r[1], r[2])) * Len(PyRange(r[3], r[4])) <= MaxTiles
                /\ range' = r
                /\ pc' = "RangeComputed"
                /\ stages' = <<"range">>
                /\ UNCHANGED failedIn
    /\ UNCHANGED <<total_tiles, tile_urls>>
    /\ UNCHANGED <<fetchVars, imageVars, outVars, dirVars>>
    /\ UNCHANGED ctorVars

\* BuildTileUrls whose inner range stops one column short.
BuildTileUrlsShortRow ==
    /\ pc = "RangeComputed"
    /\ total_tiles' = (range[2] - range[1] + 1) * (range[4] - range[3] + 1)
    /\ tile_urls' = BuildUrls(PyRange(range[3], range[4]),
                              PyRange(range[1], range[2] - 1), args.zoom, args.layer)
    /\ pc' = "RequestsBuilt"
    /\ stages' = Append(stages, "requests")
    /\ UNCHANGED <<failedIn, args, range>>
    /\ UNCHANGED <<fetchVars, imageVars, outVars, dirVars>>
    /\ UNCHANGED ctorVars

\* Lines 163-170.
BuildTileUrls ==
    /\ pc = "RangeComputed"
    /\ total_tiles' = (range[2] - range[1] + 1) * (range[4] - range[3] + 1)
    /\ tile_urls' = BuildUrls(PyRange(range[3], range[4]),
                              PyRange(range[1], range[2]), args.zoom, args.layer)
    /\ pc' = "RequestsBuilt"
    /\ stages' = Append(stages, "requests")
    /\ UNCHANGED <<failedIn, args, range>>
    /\ UNCHANGED <<fetchVars, imageVars, outVars, dirVars>>
    /\ UNCHANGED ctorVars

(***************************************************************************)
(* _download_tiles_in_parallel_async, lines 128-142, run by asyncio.run    *)
(* at line 172, and _download_tile_async, lines 103-116.                   *)
(***************************************************************************)
\* FetchAllStart with every task connecting at once, past the connector.
FetchAllStartUnpooled ==
    /\ pc = "RequestsBuilt"
    /\ tasks' = [t \in 1..Len(tile_urls) |-> [st |-> "inflight", outcome |-> "", res |-> NoPath]]
    /\ doneq' = <<>>
    /\ i' = 0
    /\ tile_paths' = <<>>
    /\ pc' = "Fetching"
    /\ UNCHANGED <<failedIn, stages, errlog, progress>>
    /\ UNCHANGED <<callVars, imageVars, outVars, dirVars>>
    /\ UNCHANGED ctorVars

\* Lines 128-136: as_completed wraps every coroutine in a task; all of them
\* run up to session.get, where each waits for a connection.
FetchAllStart ==
    /\ pc = "RequestsBuilt"
    /\ tasks' = [t \in 1..Len(tile_urls) |-> [st |-> "waiting", outcome |-> "", res |-> NoPath]]
    /\ doneq' = <<>>
    /\ i' = 0
    /\ tile_paths' = <<>>
    /\ pc' = "Fetching"
    /\ UNCHANGED <<failedIn, stages, errlog, progress>>
    /\ UNCHANGED <<callVars, imageVars, outVars, dirVars>>
    /\ UNCHANGED ctorVars

\* AcquireConnection with the connector's limit left out.
AcquireConnectionNoLimit(t) ==
    /\ pc = "Fetching"
    /\ t \in Waiting
    /\ tasks' = [tasks EXCEPT ![t].st = "inflight"]
    /\ UNCHANGED <<pc, failedIn, stages, doneq, i, tile_paths, errlog, progress>>
    /\ UNCHANGED <<callVars, imageVars, outVars, dirVars>>
    /\ UNCHANGED ctorVars

\* session.get, line 104: the connector hands out a connection while fewer
\* than its limit are in use.
AcquireConnection(t) ==
    /\ pc = "Fetching"
    /\ t \in Waiting
    /\ Cardinality(InFlight) < ConnLimit
    /\ tasks' = [tasks EXCEPT ![t].st = "inflight"]
    /\ UNCHANGED <<pc, failedIn, stages, doneq, i, tile_paths, errlog, progress>>
    /\ UNCHANGED <<callVars, imageVars, outVars, dirVars>>
    /\ UNCHANGED ctorVars

\* TaskFails without the except clause: the exception leaves fetchAll.
TaskFailsPropagates(t, outcome) ==
    /\ tasks' = [tasks EXCEPT ![t] = [st |-> "done", outcome |-> outcome,
                                      res |-> NoPath]]
    /\ errlog' = errlog
    /\ doneq' = Append(doneq, t)
    /\ Raise("Fetching")
    /\ UNCHANGED files

\* The task ends with None after logging an error (lines 112-116).
TaskFails(t, outcome) ==
    /\ tasks' = [tasks EXCEPT ![t] = [st |-> "done", outcome |-> outcome,
                                      res |-> NoPath]]
    /\ errlog' = errlog \cup {tile_urls[t].url}
    /\ doneq' = Append(doneq, t)
    /\ UNCHANGED <<pc, failedIn, files>>

\* The task ends with the path of the tile file it saved (lines 106-110).
TaskSaves(t) ==
    LET tile_path == TilePath(tile_urls[t].x, tile_urls[t].y)
    IN  /\ tasks' = [tasks EXCEPT ![t] = [st |-> "done", outcome |-> "200",
                                          res |-> tile_path]]
        /\ files' = files \cup {tile_path}
        /\ doneq' = Append(doneq, t)
        /\ UNCHANGED <<pc, failedIn, errlog>>

\* What session.get and the lines after it can meet: status 200 with an
\* image, status 200 with a payload Image.open cannot decode, another
\* status, an exception of the transport.
Outcomes == {"200", "200-undecodable", "404", "error"}

\* Respond that takes every status-200 payload for a tile image.
RespondTrustsStatus(t, outcome) ==
    /\ pc = "Fetching"
    /\ t \in InFlight
    /\ IF outcome \in {"200", "200-undecodable"}
       THEN LET tile_path == TilePath(tile_urls[t].x, tile_urls[t].y)
            IN  /\ tasks' = [tasks EXCEPT ![t] = [st |-> "done", outcome |-> outcome,
                                                  res |-> tile_path]]
                /\ files' = files \cup {tile_path}
                /\ doneq' = Append(doneq, t)
                /\ UNCHANGED <<pc, failedIn, errlog>>
       ELSE TaskFails(t, outcome)
    /\ UNCHANGED <<stages, i, tile_paths, progress, dirExists>>
    /\ UNCHANGED <<callVars, imageVars, outVars>>
    /\ UNCHANGED ctorVars

\* Lines 104-116 once the response arrives: status 200 saves the tile
\* (Image.open raises on a payload that is no image, the save raises when
\* output_dir is missing), another status or an exception yields None.
Respond(t, outcome) ==
    /\ pc = "Fetching"
    /\ t \in InFlight
    /\ IF outcome = "200" /\ dirExists THEN TaskSaves(t) ELSE TaskFails(t, outcome)
    /\ UNCHANGED <<stages, i, tile_paths, progress, dirExists>>
    /\ UNCHANGED <<callVars, imageVars, outVars>>
    /\ UNCHANGED ctorVars

\* session.get raises before a connection was obtained (time-out in the
\* connector's queue).
ConnectRaises(t) ==
    /\ pc = "Fetching"
    /\ t \in Waiting
    /\ TaskFails(t, "error")
    /\ UNCHANGED <<stages, i, tile_paths, progress, dirExists>>
    /\ UNCHANGED <<callVars, imageVars, outVars>>
    /\ UNCHANGED ctorVars

\* CollectNext without the "if path" test of line 138.
CollectNextKeepsNone ==
    /\ pc = "Fetching"
    /\ doneq # <<>>
    /\ LET path == tasks[Head(doneq)].res
       IN  /\ i' = i + 1
           /\ tile_paths' = Append(tile_paths, path)
           /\ progress' = IF (i + 1) % ProgressEvery = 0 \/ i + 1 = Len(tile_urls)
                          THEN Append(progress, i + 1) ELSE progress
    /\ doneq' = Tail(doneq)
    /\ UNCHANGED <<pc, failedIn, stages, tasks, errlog>>
    /\ UNCHANGED <<callVars, imageVars, outVars, dirVars>>
    /\ UNCHANGED ctorVars

\* One iteration of the loop of lines 136-141.
CollectNext ==
    /\ pc = "Fetching"
    /\ doneq # <<>>
    /\ LET path == tasks[Head(doneq)].res
       IN  /\ i' = i + 1
           /\ tile_paths' = IF path # NoPath THEN Append(tile_paths, path)
                            ELSE tile_paths
           /\ progress' = IF (i + 1) % ProgressEvery = 0 \/ i + 1 = Len(tile_urls)
                          THEN Append(progress, i + 1) ELSE progress
    /\ doneq' = Tail(doneq)
    /\ UNCHANGED <<pc, failedIn, stages, tasks, errlog>>
    /\ UNCHANGED <<callVars, imageVars, outVars, dirVars>>
    /\ UNCHANGED ctorVars

\* FetchAllReturn that returns on the first completion.
FetchAllReturnEarly ==
    /\ pc = "Fetching"
    /\ i >= 1 \/ Len(tasks) = 0
    /\ pc' = "Assembling"
    /\ stages' = Append(stages, "fetch")
    /\ UNCHANGED <<failedIn>>
    /\ UNCHANGED <<callVars, fetchVars, imageVars, outVars, dirVars>>
    /\ UNCHANGED ctorVars

\* as_completed is exhausted after len(tasks) iterations: line 142 returns,
\* the session closes, asyncio.run returns at line 172.
FetchAllReturn ==
    /\ pc = "Fetching"
    /\ i = Len(tasks)
    /\ pc' = "Assembling"
    /\ stages' = Append(stages, "fetch")
    /\ UNCHANGED <<failedIn>>
    /\ UNCHANGED <<callVars, fetchVars, imageVars, outVars, dirVars>>
    /\ UNCHANGED ctorVars

(***************************************************************************)
(* _assemble_tiles, lines 197-203.                                         *)
(***************************************************************************)
SetMax(S) == CHOOSE m \in S : \A n \in S : n <= m
SetMin(S) == CHOOSE m \in S : \A n \in S : m <= n

\* AssembleNew that refuses to build an image when no tile arrived.
AssembleNewNeedsTiles ==
    /\ pc = "Assembling"
    /\ LET w == (range[2] - range[1] + 1) * tile_size
           h == (range[4] - range[3] + 1) * tile_size
       IN  IF w < 0 \/ h < 0 \/ tile_paths = <<>>
           THEN /\ Raise("Assembling")
                /\ UNCHANGED imageVars
           ELSE /\ full_image' = NewImage(w, h)
                /\ k' = 1
                /\ pc' = "Pasting"
                /\ UNCHANGED failedIn
    /\ UNCHANGED <<stages>>
    /\ UNCHANGED <<callVars, fetchVars, outVars, dirVars>>
    /\ UNCHANGED ctorVars

\* AssembleNew that sizes the canvas to the tiles that arrived.
AssembleNewFromArrived ==
    /\ pc = "Assembling"
    /\ LET xs == {ParseTilePath(tile_paths[j])[1] : j \in 1..Len(tile_paths)}
           ys == {ParseTilePath(tile_paths[j])[2] : j \in 1..Len(tile_paths)}
           w == IF xs = {} THEN 0 ELSE (SetMax(xs) - SetMin(xs) + 1) * tile_size
           h == IF ys = {} THEN 0 ELSE (SetMax(ys) - SetMin(ys) + 1) * tile_size
       IN  /\ full_image' = NewImage(w, h)
           /\ k' = 1
           /\ pc' = "Pasting"
           /\ UNCHANGED failedIn
    /\ UNCHANGED <<stages>>
    /\ UNCHANGED <<callVars, fetchVars, outVars, dirVars>>
    /\ UNCHANGED ctorVars

\* Image.new, line 197: PIL raises ValueError for a negative width or
\* height.
AssembleNew ==
    /\ pc = "Assembling"
    /\ LET w == (range[2] - range[1] + 1) * tile_size
           h == (range[4] - range[3] + 1) * tile_size
       IN  IF w < 0 \/ h < 0
           THEN /\ Raise("Assembling")
                /\ UNCHANGED imageVars
           ELSE /\ full_image' = NewImage(w, h)
                /\ k' = 1
                /\ pc' = "Pasting"
                /\ UNCHANGED failedIn
    /\ UNCHANGED <<stages>>
    /\ UNCHANGED <<callVars, fetchVars, outVars, dirVars>>
    /\ UNCHANGED ctorVars

\* Lines 199-201 of one iteration of the loop: open the tile file (which
\* raises when the file is not there) and paste it.
PasteTile ==
    /\ pc = "Pasting"
    /\ k <= Len(tile_paths)
    /\ IF tile_paths[k] \in files
       THEN /\ full_image' = Paste(full_image, tile_paths[k],
                                   ServerTileSize(args.layer), range[1], range[3])
            /\ pc' = "Removing"
            /\ UNCHANGED failedIn
       ELSE /\ Raise("Assembling")
            /\ UNCHANGED full_image
    /\ UNCHANGED <<stages, k>>
    /\ UNCHANGED <<callVars, fetchVars, outVars, dirVars>>
    /\ UNCHANGED ctorVars

\* RemoveTile without the os.remove of line 202.
RemoveTileKeepsFile ==
    /\ pc = "Removing"
    /\ files' = files
    /\ k' = k + 1
    /\ pc' = "Pasting"
    /\ UNCHANGED <<failedIn, stages, full_image, dirExists>>
    /\ UNCHANGED <<callVars, fetchVars, outVars>>
    /\ UNCHANGED ctorVars

\* Line 202: the pasted tile's file is removed; the loop goes on.
RemoveTile ==
    /\ pc = "Removing"
    /\ files' = files \ {tile_paths[k]}
    /\ k' = k + 1
    /\ pc' = "Pasting"
    /\ UNCHANGED <<failedIn, stages, full_image, dirExists>>
    /\ UNCHANGED <<callVars, fetchVars, outVars>>
    /\ UNCHANGED ctorVars

\* AssembleReturn in a download_tiles that clears the directory before it
\* writes the raster.
AssembleReturnPurgesFirst ==
    /\ pc = "Pasting"
    /\ k > Len(tile_paths)
    /\ pc' = "Purging"
    /\ stages' = Append(stages, "assemble")
    /\ UNCHANGED <<failedIn>>
    /\ UNCHANGED <<callVars, fetchVars, imageVars, outVars, dirVars>>
    /\ UNCHANGED ctorVars

\* Line 203, back in download_tiles at line 176.
AssembleReturn ==
    /\ pc = "Pasting"
    /\ k > Len(tile_paths)
    /\ pc' = "Writing"
    /\ stages' = Append(stages, "assemble")
    /\ UNCHANGED <<failedIn>>
    /\ UNCHANGED <<callVars, fetchVars, imageVars, outVars, dirVars>>
    /\ UNCHANGED ctorVars

(***************************************************************************)
(* _save_as_geotiff, lines 220-231.                                        *)
(***************************************************************************)
\* from_bounds with the south and north edges exchanged.
from_bounds_flipped(west, south, east, north, width, height) ==
    [c |-> west, a_num |-> east - west, a_den |-> width,
     f |-> south, e_num |-> north - south, e_den |-> height]

\* rasterio.transform.from_bounds, line 226: the affine transform
\* translation(west, north) * scale((east - west) / width,
\* (south - north) / height), its two scale factors kept as fractions.
from_bounds(west, south, east, north, width, height) ==
    [c |-> west, a_num |-> east - west, a_den |-> width,
     f |-> north, e_num |-> south - north, e_den |-> height]

\* The world coordinate the transform gives to pixel (col, row).
ApplyTransform(t, col, row) ==
    <<t.c + (col * t.a_num) \div t.a_den, t.f + (row * t.e_num) \div t.e_den>>

\* rasterio.open and dst.write: an image without pixels cannot be created,
\* and any write can fail on the disk.
SaveAsGeotiff(io_ok) ==
    /\ pc = "Writing"
    /\ IF full_image.w = 0 \/ full_image.h = 0 \/ ~io_ok
       THEN /\ Raise("Writing")
            /\ UNCHANGED <<stages, raster>>
       ELSE /\ raster' = {f \in raster : f.path # args.output_file} \cup
                         {[path  |-> args.output_file,
                           w     |-> full_image.w,
                           h     |-> full_image.h,
                           west  |-> range[1] * tile_size,
                           north |-> range[3] * tile_size,
                           east  |-> (range[2] + 1) * tile_size,
                           south |-> (range[4] + 1) * tile_size,
                           transform |-> from_bounds(range[1] * tile_size,
                                                     (range[4] + 1) * tile_size,
                                                     (range[2] + 1) * tile_size,
                                                     range[3] * tile_size,
                                                     full_image.w, full_image.h),
                           cells |-> full_image.cells]}
            /\ pc' = "Purging"
            /\ stages' = Append(stages, "write")
            /\ UNCHANGED failedIn
    /\ UNCHANGED <<retval, converter_input>>
    /\ UNCHANGED <<callVars, fetchVars, imageVars, dirVars>>
    /\ UNCHANGED ctorVars

(***************************************************************************)
(* _prepare_output_directory, lines 49-52, called at line 180.             *)
(***************************************************************************)
\* rmtree and makedirs succeed: an existing, empty directory.
PrepareSucceeds ==
    /\ dirExists' = TRUE
    /\ files' = {}

\* shutil.rmtree raises: the directory stays, with some of its files.
RmtreeRaises ==
    /\ dirExists
    /\ dirExists' = TRUE
    /\ files' \in SUBSET files

\* os.makedirs raises after rmtree removed the directory.
MakedirsRaises ==
    /\ dirExists' = FALSE
    /\ files' = {}

\* Lines 180-181: clear the directory, log, return (no return statement:
\* the call returns None).
PurgeAndReturn(outcome) ==
    /\ pc = "Purging"
    /\ CASE outcome = "ok" ->
              /\ PrepareSucceeds
              /\ pc' = "Done"
              /\ stages' = Append(stages, "purge")
              /\ retval' = NoneValue
              /\ UNCHANGED failedIn
         [] outcome = "rmtree" ->
              /\ RmtreeRaises
              /\ Raise("Purging")
              /\ UNCHANGED <<stages, retval>>
         [] outcome = "makedirs" ->
              /\ MakedirsRaises
              /\ Raise("Purging")
              /\ UNCHANGED <<stages, retval>>
    /\ UNCHANGED <<raster, converter_input>>
    /\ UNCHANGED <<callVars, fetchVars, imageVars>>
    /\ UNCHANGED ctorVars

(***************************************************************************)
(* download_image, src/app.py lines 311-349.                               *)
(***************************************************************************)
\* Lines 330-339: the value download_tiles returned goes, wrapped in a
\* list, to tifpngconverter.convert.
RouteConvert ==
    /\ pc = "Done"
    /\ converter_input' = <<retval>>
    /\ pc' = "Returned"
    /\ UNCHANGED <<failedIn, stages, raster, retval>>
    /\ UNCHANGED <<callVars, fetchVars, imageVars, dirVars>>
    /\ UNCHANGED ctorVars

\* The request is answered; the next request starts from _clean_folder_structure
\* (line 314), which empties uploads/ but not the downloader's output_dir.
NextRequest ==
    /\ pc \in {"Returned", "Failed"}
    /\ pc' = "Idle"
    /\ failedIn' = ""
    /\ stages' = <<>>
    /\ args' = NoArgs
    /\ range' = NoRange
    /\ total_tiles' = 0
    /\ tile_urls' = <<>>
    /\ tasks' = <<>>
    /\ doneq' = <<>>
    /\ i' = 0
    /\ tile_paths' = <<>>
    /\ errlog' = {}
    /\ progress' = <<>>
    /\ full_image' = NoImage
    /\ k' = 0
    /\ raster' = {}
    /\ retval' = NotReturned
    /\ converter_input' = <<>>
    /\ UNCHANGED dirVars
    /\ UNCHANGED ctorVars

Next ==
    \/ \E lat_min \in Lats, lon_min \in Lons, lat_max \in Lats, lon_max \in Lons,
          z \in Zooms, layer \in Layers, out \in OutputFiles :
          CalculateTileRange(lat_min, lon_min, lat_max, lon_max, z, layer, out)
    \/ BuildTileUrls
    \/ FetchAllStart
    \/ \E t \in TaskIds : AcquireConnection(t)
    \/ \E t \in TaskIds, outcome \in Outcomes : Respond(t, outcome)
    \/ \E t \in TaskIds : ConnectRaises(t)
    \/ CollectNext
    \/ FetchAllReturn
    \/ AssembleNew
    \/ PasteTile
    \/ RemoveTile
    \/ AssembleReturn
    \/ \E io_ok \in BOOLEAN : SaveAsGeotiff(io_ok)
    \/ \E outcome \in {"ok", "rmtree", "makedirs"} : PurgeAndReturn(outcome)
    \/ RouteConvert
    \/ NextRequest

Spec == Init /\ [][Next]_vars

TypeOK ==
    /\ pc \in {"Idle", "RangeComputed", "RequestsBuilt", "Fetching", "Assembling",
               "Pasting", "Removing", "Writing", "Purging", "Done", "Returned", "Failed"}
    /\ dirExists \in BOOLEAN
    /\ i \in 0..Len(tasks)
    /\ Len(tasks) = IF pc \in {"Idle", "RangeComputed", "RequestsBuilt", "Failed"}
                    THEN Len(tasks) ELSE Len(tile_urls)

(***************************************************************************)
(* Properties.                                                             *)
(***************************************************************************)
Succeeded == {t \in TaskIds : tasks[t].res # NoPath}
StageOrder == <<"range", "requests", "fetch", "assemble", "write", "purge">>
IsPrefix(s, t) == Len(s) <= Len(t) /\ \A j \in 1..Len(s) : s[j] = t[j]
DirClean == dirExists /\ files = {}

\* C1: at every instant the number of tile requests in flight (GET issued,
\* response not yet received) is at most the connector's limit.
C1_InFlightBounded == Cardinality(InFlight) <= ConnLimit

\* The limit is reached while a further request is held back.
C1_Witness ==
    /\ pc = "Fetching"
    /\ Cardinality(InFlight) = ConnLimit
    /\ Waiting # {}

\* C2 as claimed: the number of fetch tasks started and not yet finished is
\* at most the limit.
C2_TaskFanOutBounded == Cardinality(StartedUnfinished) <= ConnLimit

\* C2 amended: all fetch tasks are started at once, so the started,
\* unfinished tasks are bounded by the number of requests only; those in
\* excess of the limit are all waiting for a connection.
C2_TasksBeyondLimitWait ==
    /\ Cardinality(StartedUnfinished) <= Len(tile_urls)
    /\ Cardinality(Waiting) >= Cardinality(StartedUnfinished) - ConnLimit

\* More tasks are under way than the limit, the excess waiting.
C2_Witness ==
    /\ Cardinality(StartedUnfinished) > ConnLimit
    /\ Cardinality(InFlight) = ConnLimit

\* C3: when fetchAll has returned and the result list goes to the
\* assembler, every fetch task it launched has completed.
C3_ReturnAfterAllDone ==
    pc \in {"Assembling", "Pasting", "Removing"} =>
        /\ \A t \in TaskIds : tasks[t].st = "done"
        /\ doneq = <<>>

\* fetchAll has returned from more requests than the limit admits at once.
C3_Witness ==
    /\ pc = "Assembling"
    /\ Len(tasks) > ConnLimit
    /\ Succeeded # {}
    /\ Succeeded # TaskIds

\* C4: a fetch task that met a non-200 status or an exception has yielded
\* None and logged an error, and no call has failed while fetching.
C4_TileFailureAbsorbed ==
    /\ \A t \in Finished :
          tasks[t].outcome # "200" =>
              /\ tasks[t].res = NoPath
              /\ tile_urls[t].url \in errlog
    /\ pc = "Failed" => failedIn # "Fetching"

\* A call got through fetchAll with a non-200 tile, a tile whose GET raised
\* and a tile that arrived.
C4_Witness ==
    /\ pc = "Assembling"
    /\ \E t \in Finished : tasks[t].outcome = "404"
    /\ \E t \in Finished : tasks[t].outcome = "error"
    /\ Succeeded # {}

\* C5 as claimed: the list fetchAll returns has one entry per request.
C5_OneResultPerRequest ==
    pc = "Assembling" => Len(tile_paths) = Len(tile_urls)

\* C5 amended: the list fetchAll returns holds exactly the paths of the
\* tiles that were fetched and saved, one entry each; failed requests have
\* no entry, so the list is as long as the number of successful fetches.
C5_OnePathPerSuccess ==
    pc = "Assembling" =>
        /\ Len(tile_paths) = Cardinality(Succeeded)
        /\ SeqRange(tile_paths) = {tasks[t].res : t \in Succeeded}
        /\ Len(tile_paths) <= Len(tile_urls)

\* fetchAll has returned some of the tiles and not others.
C5_Witness ==
    /\ pc = "Assembling"
    /\ Len(tile_paths) > 0
    /\ Len(tile_paths) < Len(tile_urls)

\* C6 as claimed: a call fails only at the range computation or at the
\* write (the purge that closes the write counted with it), never while
\* fetching or assembling.
C6_FailedOnlyFromRangeOrWriting ==
    pc = "Failed" => failedIn \in {"RangeComputed", "Writing", "Purging"}

\* C7: the stages of a call complete in the order range, requests, fetch,
\* assemble, write, purge; a call that is done has completed all six, and
\* the purge is never completed before the raster is written.
C7_StagesInOrder ==
    /\ IsPrefix(stages, StageOrder)
    /\ pc \in {"Done", "Returned"} => stages = StageOrder
    /\ "purge" \in SeqRange(stages) =>
           \E f \in raster : f.path = args.output_file

\* A call that downloaded tiles is done.
C7_Witness ==
    /\ pc = "Done"
    /\ Len(tile_paths) > 0

\* C8 as claimed: when a call starts, the working directory exists and is
\* empty.
C8_CleanDirAtCallStart ==
    pc = "RangeComputed" => DirClean

\* C9 as claimed: when a call has ended, done or failed, the working
\* directory is cleared: it exists and holds no tile file.
C9_CleanupGuaranteed ==
    pc \in {"Done", "Failed"} => DirClean

\* C10 as claimed: a call that is done has returned the path it wrote the
\* raster to, and the route hands that path to the display converter.
C10_ReturnsOutputPath ==
    /\ pc \in {"Done", "Returned"} => retval = args.output_file
    /\ pc = "Returned" => converter_input = <<args.output_file>>

(***************************************************************************)
(* Properties of the assembler and of the call's outcome.                  *)
(***************************************************************************)
CanvasW == (range[2] - range[1] + 1) * tile_size
CanvasH == (range[4] - range[3] + 1) * tile_size
Assembled == pc \in {"Writing", "Purging", "Done", "Returned"}
Written == pc \in {"Purging", "Done", "Returned"}
AllFetchesFailed == Len(tasks) > 0 /\ Finished = TaskIds /\ Succeeded = {}
\* The canvas cell at which the tile of coordinate (x, y) starts.
CellOf(x, y) == <<x - range[1], y - range[3]>>

\* C11: when every tile fetch has failed the call does not fail for it: the
\* canvas has the full dimensions of the tile range with every cell at
\* background, the raster written holds that canvas, and only the write or
\* the purge can still fail.
C11_AllFailStillCompletes ==
    AllFetchesFailed =>
        /\ pc = "Failed" => failedIn \in {"Writing", "Purging"}
        /\ Assembled => full_image = NewImage(CanvasW, CanvasH)
        /\ Written => \E f \in raster :
                          /\ f.path = args.output_file
                          /\ f.w = CanvasW /\ f.h = CanvasH
                          /\ \A c \in DOMAIN f.cells : f.cells[c] = Background

\* A call whose every fetch failed is done.
C11_Witness ==
    /\ pc = "Done"
    /\ AllFetchesFailed
    /\ Len(tasks) > 1

\* What a finished call reports about missing tiles: nothing when it
\* returned None.
ReportedMissing == IF retval \in {NoneValue, NotReturned} THEN {} ELSE {retval.missing}

\* C12 as claimed: a successful call reports the number of missing tiles,
\* the tiles of the range minus the tiles fetched.
C12_ReportsMissingCount ==
    pc \in {"Done", "Returned"} =>
        ReportedMissing = {Len(tile_urls) - Len(tile_paths)}

\* C13 as claimed: a call with a degenerate or inverted bounding box, or
\* with an empty tile range, gets no further than the range: it does not
\* start fetching, and it fails at the range computation.
C13_InvalidRangeRaisesBeforeFetch ==
    (/\ pc # "Idle"
     /\ \/ ~args.valid_bbox
        \/ range # NoRange /\ (range[1] > range[2] \/ range[3] > range[4]))
    => /\ pc \in {"RangeComputed", "RequestsBuilt", "Failed"}
       /\ pc = "Failed" => failedIn = "RangeComputed"

\* C14 as claimed: a failure of the working directory's removal or creation
\* is raised before any fetch of the call, never after tiles were fetched
\* or the raster was written.
C14_DirectoryFailureBeforeFetch ==
    (pc = "Failed" /\ failedIn = "Purging") =>
        /\ "fetch" \notin SeqRange(stages)
        /\ raster = {}

\* C15: the canvas is (max_x-min_x+1)*tile_size wide and
\* (max_y-min_y+1)*tile_size high from its creation on, whichever tiles
\* arrived, and so is the raster written from it.
C15_CanvasDimensions ==
    /\ pc \in {"Pasting", "Removing", "Writing", "Purging", "Done", "Returned"} =>
          /\ full_image.w = CanvasW
          /\ full_image.h = CanvasH
          /\ DOMAIN full_image.cells =
                (0..(range[2] - range[1])) \X (0..(range[4] - range[3]))
    /\ \A f \in raster : f.w = CanvasW /\ f.h = CanvasH

\* The canvas is assembled from some of the tiles only.
C15_Witness ==
    /\ pc = "Writing"
    /\ Succeeded # {}
    /\ Succeeded # TaskIds

\* C16 as claimed: after assemble, the canvas square at the offset of every
\* present tile holds exactly that tile's pixel block.
C16_TileAtItsOffset ==
    Assembled =>
        \A j \in 1..Len(tile_paths) :
            LET xy == ParseTilePath(tile_paths[j])
            IN  full_image.cells[CellOf(xy[1], xy[2])] =
                    [tile |-> tile_paths[j], bx |-> 0, by |-> 0, of |-> 1]

\* The loop of lines 198-202 run over a list of tile paths.
RECURSIVE PasteAll(_, _, _, _, _)
PasteAll(img, paths, side, min_tile_x, min_tile_y) ==
    IF paths = <<>> THEN img
    ELSE PasteAll(Paste(img, Head(paths), side, min_tile_x, min_tile_y),
                  Tail(paths), side, min_tile_x, min_tile_y)

\* The tiles that arrived, in the order of the request list.
RECURSIVE InRequestOrder(_)
InRequestOrder(t) ==
    IF t > Len(tasks) THEN <<>>
    ELSE (IF tasks[t].res # NoPath THEN <<tasks[t].res>> ELSE <<>>)
         \o InRequestOrder(t + 1)

\* C17 as claimed: the canvas does not depend on the order in which the
\* present tiles are applied: it is the canvas that applying them in the
\* order of the request list gives.
C17_OrderIrrelevant ==
    Assembled =>
        full_image = PasteAll(NewImage(CanvasW, CanvasH), InRequestOrder(1),
                              ServerTileSize(args.layer), range[1], range[3])

\* C18 as claimed: assemble does not fail when tiles are absent, and the
\* region of every absent tile keeps the background value.
C18_AbsentStaysBackground ==
    /\ (pc = "Failed" /\ Len(tasks) > 0) => failedIn # "Assembling"
    /\ Assembled =>
          \A t \in TaskIds :
              tasks[t].res = NoPath =>
                  full_image.cells[CellOf(tile_urls[t].x, tile_urls[t].y)] = Background

\* C19: during assemble a tile file is in the working directory until its
\* tile has been pasted and gone from it afterwards; when assemble has
\* returned none of the files it was given remains.
C19_FileRemovedAfterPaste ==
    /\ pc \in {"Pasting", "Removing"} =>
          \A j \in 1..Len(tile_paths) :
              /\ j < k => tile_paths[j] \notin files
              /\ j >= k => tile_paths[j] \in files
    /\ pc = "Removing" =>
          \E c \in DOMAIN full_image.cells : full_image.cells[c].tile = tile_paths[k]
    /\ pc = "Writing" => \A j \in 1..Len(tile_paths) : tile_paths[j] \notin files

\* assemble has returned from pasting several tiles.
C19_Witness ==
    /\ pc = "Writing"
    /\ Len(tile_paths) > 1

\* The request list of the current call has been built.
RequestsBuilt == "requests" \in SeqRange(stages)
\* The fetch tasks of the current call have been launched.
TasksLaunched == RequestsBuilt /\ pc \notin {"RequestsBuilt", "Idle"}
RequestCells == {<<tile_urls[j].x, tile_urls[j].y>> : j \in 1..Len(tile_urls)}

\* C22: the request list holds exactly one request for each cell (x, y)
\* with min_x <= x <= max_x and min_y <= y <= max_y, no cell twice and
\* none outside the range, so that for a tile range (min_x <= max_x,
\* min_y <= max_y) its size is (max_x - min_x + 1) * (max_y - min_y + 1).
C22_OneRequestPerCell ==
    RequestsBuilt =>
        /\ RequestCells = (range[1]..range[2]) \X (range[3]..range[4])
        /\ Cardinality(RequestCells) = Len(tile_urls)
        /\ (range[1] <= range[2] /\ range[3] <= range[4]) =>
              Len(tile_urls) = (range[2] - range[1] + 1) * (range[4] - range[3] + 1)

\* A request list for a range of several cells.
C22_Witness ==
    /\ RequestsBuilt
    /\ range[1] < range[2]
    /\ Len(tile_urls) > 2

\* C23: every request's URL is base/layer/style/tile_matrix_set/zoom/y/x.ext,
\* the row index before the column index, and the x and y in it are the
\* coordinate paired with the request.
C23_UrlForm ==
    RequestsBuilt =>
        \A j \in 1..Len(tile_urls) :
            tile_urls[j].url = <<UrlBase, args.layer, "normal", "google3857",
                                 args.zoom, tile_urls[j].y, tile_urls[j].x, UrlExt>>

\* A request whose row and column differ.
C23_Witness ==
    /\ RequestsBuilt
    /\ \E j \in 1..Len(tile_urls) : tile_urls[j].x # tile_urls[j].y

\* C24: the transform written with the raster maps pixel (0, 0) to
\* (west, north) = (min_x * tile_size, min_y * tile_size) and pixel
\* (width, height) to (east, south) = ((max_x + 1) * tile_size,
\* (max_y + 1) * tile_size).
C24_GeotransformCorners ==
    \A f \in raster :
        /\ ApplyTransform(f.transform, 0, 0) =
              <<range[1] * tile_size, range[3] * tile_size>>
        /\ ApplyTransform(f.transform, f.w, f.h) =
              <<(range[2] + 1) * tile_size, (range[4] + 1) * tile_size>>

\* A raster of several tiles whose range does not start at column 0.
C24_Witness ==
    /\ raster # {}
    /\ 0 < range[1]
    /\ range[1] < range[2]

\* C26 as claimed: pasting the tile of coordinate (x, y) changes no canvas
\* cell other than the tile_size square of (x, y).
C26_WriteTouchesOwnRegion ==
    [][(pc = "Pasting" /\ pc' = "Removing") =>
          LET xy == ParseTilePath(tile_paths[k])
          IN  \A c \in DOMAIN full_image.cells :
                  c # CellOf(xy[1], xy[2]) =>
                      full_image'.cells[c] = full_image.cells[c]]_vars

\* C27 as claimed: the tiles fetchAll returns are those of the tasks that
\* succeeded, whatever the order of completion, and the raster written is
\* the one that pasting them in request order gives.
C27_InterleavingIrrelevant ==
    /\ pc \in {"Assembling", "Pasting", "Removing", "Writing", "Purging"} =>
          /\ SeqRange(tile_paths) = {tasks[t].res : t \in Succeeded}
          /\ Len(tile_paths) = Cardinality(Succeeded)
    /\ Written =>
          \A f \in raster :
              f.cells = PasteAll(NewImage(CanvasW, CanvasH), InRequestOrder(1),
                                 ServerTileSize(args.layer), range[1], range[3]).cells

\* A response of status 200 that yields no tile file: the payload is no
\* image, or the working directory is missing when the file is saved.
Unusable(t) ==
    \/ tasks[t].outcome = "200-undecodable"
    \/ tasks[t].outcome = "200" /\ ~dirExists

\* C28: a tile whose response has status 200 but cannot be decoded or
\* saved ends as a failed fetch: the task yields None and logs an error,
\* no file and no entry of tile_paths exists for it, and fetchAll does not
\* fail for it.
C28_UnusablePayloadIsAbsent ==
    /\ failedIn # "Fetching"
    /\ pc \in {"Fetching", "Assembling", "Pasting", "Removing", "Writing", "Purging"} =>
          \A t \in Finished :
              Unusable(t) =>
                  /\ tasks[t].res = NoPath
                  /\ tile_urls[t].url \in errlog
                  /\ TilePath(tile_urls[t].x, tile_urls[t].y) \notin SeqRange(tile_paths)
                  /\ TilePath(tile_urls[t].x, tile_urls[t].y) \notin files

\* A call completed with one tile's payload undecodable and another tile
\* in the raster.
C28_Witness ==
    /\ pc = "Done"
    /\ \E t \in TaskIds : tasks[t].outcome = "200-undecodable"
    /\ \E f \in raster : \E c \in DOMAIN f.cells : f.cells[c] # Background

\* C30 as claimed: the count computed at line 163 equals the number of
\* requests built and the number of fetch tasks launched, for every range.
C30_TotalEqualsRequests ==
    /\ RequestsBuilt => total_tiles = Len(tile_urls)
    /\ TasksLaunched => total_tiles = Len(tasks)

(***************************************************************************)
(* The tile coordinate mapper on its own: _calculate_tile_range applied to *)
(* one bounding box and zoom level, drawn from the sets below.             *)
(***************************************************************************)
MapperLats == {-90, -89, -85, -60, 0, 60, 85, 89, 90}
MapperLons == {-180, -90, 0, 90, 180}
MapperZooms == 0..MapperMaxZoom

MapperInit ==
    /\ pc = "Idle"
    /\ failedIn = ""
    /\ stages = <<>>
    /\ args \in [lat_min : MapperLats, lon_min : MapperLons,
                 lat_max : MapperLats, lon_max : MapperLons, zoom : MapperZooms]
    /\ range = NoRange
    /\ total_tiles = 0
    /\ tile_urls = <<>>
    /\ tasks = <<>>
    /\ doneq = <<>>
    /\ i = 0
    /\ tile_paths = <<>>
    /\ errlog = {}
    /\ progress = <<>>
    /\ full_image = NoImage
    /\ k = 0
    /\ raster = {}
    /\ retval = NotReturned
    /\ converter_input = <<>>
    /\ dirExists = TRUE
    /\ files = {}
    /\ instance = AppInstance
    /\ constructions = <<AppConstruction>>

\* Line 162 alone: the range of the bounding box, or the exception of
\* math.log.
MapperCalculateTileRange ==
    /\ pc = "Idle"
    /\ IF MercatorRaises(args.lat_max) \/ MercatorRaises(args.lat_min)
       THEN /\ Raise("RangeComputed")
            /\ UNCHANGED range
       ELSE /\ range' = calculate_tile_range(args.lat_min, args.lon_min,
                                             args.lat_max, args.lon_max, args.zoom)
            /\ pc' = "RangeComputed"
            /\ UNCHANGED failedIn
    /\ UNCHANGED <<stages, args, total_tiles, tile_urls>>
    /\ UNCHANGED <<fetchVars, imageVars, outVars, dirVars>>
    /\ UNCHANGED ctorVars

\* _calculate_tile_coordinates alone, lines 66-70, on the corner
\* (lat_min, lon_min): the pair <<x_tile, y_tile>>, or the exception of
\* math.log.
MapperCalculateTileCoordinates ==
    /\ pc = "Idle"
    /\ IF MercatorRaises(args.lat_min)
       THEN /\ Raise("CoordinateComputed")
            /\ UNCHANGED range
       ELSE /\ range' = calculate_tile_coordinates(args.lat_min, args.lon_min, args.zoom)
            /\ pc' = "CoordinateComputed"
            /\ UNCHANGED failedIn
    /\ UNCHANGED <<stages, args, total_tiles, tile_urls>>
    /\ UNCHANGED <<fetchVars, imageVars, outVars, dirVars>>
    /\ UNCHANGED ctorVars

MapperNext ==
    \/ MapperCalculateTileRange
    \/ MapperCalculateTileCoordinates

SpecMapper == MapperInit /\ [][MapperNext]_vars

C21_CoordinateInGrid ==
    /\ failedIn # "CoordinateComputed"
    /\ pc = "CoordinateComputed" =>
          /\ 0 <= range[1] /\ range[1] < Pow2(args.zoom)
          /\ 0 <= range[2] /\ range[2] < Pow2(args.zoom)

\* The corners of the bounding box in tile-pixel units, as fractions: the
\* pixel column of a longitude times 360, the pixel row of a latitude times
\* 15625 (a millionth of tile_size pixels is 1/15625 pixel times
\* tile_size / 64).
CornerPixelX360(lon, z) == (lon + 180) * Pow2(z) * tile_size
CornerPixelY15625(lat, z) == MercatorMicro(lat) * Pow2(z) * (tile_size \div 64)

\* C25 as claimed: for a valid bounding box the rectangle (west, north,
\* east, south) that _save_as_geotiff derives from the computed range
\* contains both corners of the box projected into tile-pixel units.
C25_RangeCoversBbox ==
    (/\ pc = "RangeComputed"
     /\ args.lat_min < args.lat_max
     /\ args.lon_min < args.lon_max)
    => LET west  == range[1] * tile_size
           north == range[3] * tile_size
           east  == (range[2] + 1) * tile_size
           south == (range[4] + 1) * tile_size
       IN  /\ west * 360 <= CornerPixelX360(args.lon_min, args.zoom)
           /\ CornerPixelX360(args.lon_max, args.zoom) <= east * 360
           /\ north * 15625 <= CornerPixelY15625(args.lat_max, args.zoom)
           /\ CornerPixelY15625(args.lat_min, args.zoom) <= south * 15625

(***************************************************************************)
(* The constructor on its own: a process in which BasemapDownloader(...)   *)
(* is called several times, lines 15-40.                                   *)
(***************************************************************************)
\* BasemapDownloader() and BasemapDownloader(tile_size=.., crs=..).
CtorCalls ==
    {[with_args |-> FALSE, tile_size |-> tile_size, output_dir |-> DefaultOutputDir,
      crs |-> DefaultCrs, raised |-> "", cleared |-> FALSE]}
    \cup [with_args : {TRUE}, tile_size : {tile_size, 2 * tile_size},
          output_dir : {DefaultOutputDir}, crs : {DefaultCrs, "EPSG:4326"},
          raised : {""}, cleared : {FALSE}]
PrepOutcomes == {"ok", "rmtree", "makedirs"}

\* The process has constructed nothing yet; the working directory may hold
\* a tile file of an earlier run.
SingletonInit ==
    /\ pc = "Idle"
    /\ failedIn = ""
    /\ stages = <<>>
    /\ args = NoArgs
    /\ range = NoRange
    /\ total_tiles = 0
    /\ tile_urls = <<>>
    /\ tasks = <<>>
    /\ doneq = <<>>
    /\ i = 0
    /\ tile_paths = <<>>
    /\ errlog = {}
    /\ progress = <<>>
    /\ full_image = NoImage
    /\ k = 0
    /\ raster = {}
    /\ retval = NotReturned
    /\ converter_input = <<>>
    /\ dirExists = TRUE
    /\ files \in {{}, {TilePath(0, 0)}}
    /\ instance = NoInstance
    /\ constructions = <<>>

\* One BasemapDownloader(...) call: __new__ (lines 17-21), then __init__
\* (lines 32-40) when __new__ returned.
\*  - No instance yet and arguments given: line 19 hands them to
\*    object.__new__, which raises TypeError; _instance stays None.
\*  - Instance not initialized: __init__ stores the arguments and prepares
\*    the directory; when that raises, _initialized stays False.
\*  - Instance initialized: nothing is changed.
Construct(call, prep) ==
    /\ pc = "Idle"
    /\ Len(constructions) < MaxConstructions
    /\ IF ~instance.created /\ call.with_args
       THEN /\ prep = "ok"
            /\ constructions' = Append(constructions, [call EXCEPT !.raised = "TypeError"])
            /\ UNCHANGED <<instance, dirVars>>
       ELSE IF ~instance.initialized
            THEN /\ CASE prep = "ok"       -> PrepareSucceeds
                      [] prep = "rmtree"   -> RmtreeRaises
                      [] prep = "makedirs" -> MakedirsRaises
                 /\ instance' = [initialized |-> prep = "ok", created |-> TRUE,
                                 tile_size |-> call.tile_size,
                                 output_dir |-> call.output_dir, crs |-> call.crs]
                 /\ constructions' =
                        Append(constructions,
                               [call EXCEPT !.raised = IF prep = "ok" THEN "" ELSE "OSError",
                                            !.cleared = TRUE])
            ELSE /\ prep = "ok"
                 /\ constructions' = Append(constructions, call)
                 /\ UNCHANGED <<instance, dirVars>>
    /\ UNCHANGED <<pc, failedIn, stages>>
    /\ UNCHANGED <<callVars, fetchVars, imageVars, outVars>>

SingletonNext == \E call \in CtorCalls, prep \in PrepOutcomes : Construct(call, prep)

SpecSingleton == SingletonInit /\ [][SingletonNext]_vars

\* C29 as claimed: after any sequence of constructions there is one shared
\* instance whose tile_size, output_dir and crs are those of the first
\* construction, and no construction after the first has cleared the
\* working directory.
C29_SingletonKeepsFirstConfig ==
    constructions # <<>> =>
        /\ instance.created
        /\ instance.tile_size = constructions[1].tile_size
        /\ instance.output_dir = constructions[1].output_dir
        /\ instance.crs = constructions[1].crs
        /\ \A j \in 2..Len(constructions) : ~constructions[j].cleared

====
